---- MODULE Spec2Model ----
(***************************************************************************)
(* Model of the NAT-traversal connection orchestrator of libp2p-relay-demo *)
(*   src/src/main.rs       the orchestration loop and its two maps        *)
(*   src/src/transport.rs  the hole-punch transport adapter               *)
(*   src/src/behaviour.rs  the composed behaviour and its toggles         *)
(*   src/src/behaviour/    the reachability and routing-table shims       *)
(* Multiaddrs are sequences of protocol segments; maps are functions      *)
(* whose domain is the set of present keys.                               *)
(***************************************************************************)
EXTENDS Integers, Sequences, FiniteSets, TLC

VARIABLES
    pc,                   \* position of main: "start", "wait", "loop", "panic"
    opt,                  \* the parsed command line (Opt), fixed after Init
    behaviour,            \* which Toggle fields of Behaviour hold a module
    connections,          \* HashMap<PeerId, HashMap<ConnectionId, ConnectedPoint>>
    relayed_connections,  \* HashMap<PeerId, HashSet<ConnectionId>>
    live,                 \* swarm side: established connections not yet reported closed
    nextConn,             \* swarm side: next fresh ConnectionId
    close_requested,      \* swarm side: the ids close_connection was called with so far
    ev,                   \* the event the last step took from swarm.next()
    cmds,                 \* the commands the last step issued, in issue order
    listened,             \* HolePunchTransport.listened
    inner,                \* listeners live in the wrapped TokioTcpTransport
    nextListener,         \* swarm side: next fresh ListenerId
    tlog,                 \* per listener id: what its listen_on call was given and returned
    call,                 \* the last call made on the HolePunchTransport and its outcome
    autonat_seen,         \* autonat shim: the swarm events given to on_swarm_event
    autonat_inner,        \* autonat shim: the swarm events its inner module received
    handlers,             \* kad shim: the handler each connection was given
    kad_inner,            \* kad shim: the calls its inner module received
    kad_notified          \* kad shim: the connections poll addressed a handler command to

loopVars == <<pc, opt, behaviour, connections, relayed_connections, live, nextConn,
              close_requested, ev, cmds>>
transportVars == <<listened, inner, nextListener, tlog, call>>
autonatVars == <<autonat_seen, autonat_inner>>
kadVars == <<handlers, kad_inner, kad_notified>>
shimVars == <<autonat_seen, autonat_inner, handlers, kad_inner, kad_notified>>
vars == <<pc, opt, behaviour, connections, relayed_connections, live, nextConn,
          close_requested, ev, cmds,
          listened, inner, nextListener, tlog, call,
          autonat_seen, autonat_inner, handlers, kad_inner, kad_notified>>

----------------------------------------------------------------------------
(* Bounds of the model *)

MaxConns == 2
MaxListeners == 2
MaxShimEvents == 3

\* peer 1 is the relay R, peer 2 the remote peer B behind it
Peers == {1, 2}
ConnIds == 1..MaxConns
ListenerIds == 1..MaxListeners

----------------------------------------------------------------------------
(* Maps *)

EmptyMap == [k \in {} |-> {}]

MapPut(m, k, v) == [x \in (DOMAIN m) \cup {k} |-> IF x = k THEN v ELSE m[x]]

MapRemove(m, k) == [x \in (DOMAIN m) \ {k} |-> m[x]]

MapValues(m) == {m[k] : k \in DOMAIN m}

Perms(S) == {s \in [1..Cardinality(S) -> S] : \A i, j \in 1..Cardinality(S) : s[i] = s[j] => i = j}

----------------------------------------------------------------------------
(* Multiaddr: a sequence of Protocol segments *)
(* Every record of the module lists its fields in the order TLC keeps them, *)
(* the order in which the names first occur, so that a record shared by the *)
(* workers is already in normal form.                                       *)

Ip4(n) == [v |-> n, t |-> "ip4"]
Tcp(n) == [v |-> n, t |-> "tcp"]
P2p(p) == [v |-> p, t |-> "p2p"]
P2pCircuit == [v |-> 0, t |-> "p2p-circuit"]
P2pWebRtcDirect == [v |-> 0, t |-> "p2p-webrtc-direct"]

NoAddr == << >>

\* Multiaddr::with
With(addr, p) == Append(addr, p)

AddrContains(addr, p) == \E i \in 1..Len(addr) : addr[i] = p

----------------------------------------------------------------------------
(* ConnectedPoint *)

Dialer(address, role_override) ==
    [address |-> address, role_override |-> role_override, kind |-> "Dialer",
     local_addr |-> NoAddr, send_back_addr |-> NoAddr]

Listener(local_addr, send_back_addr) ==
    [address |-> NoAddr, role_override |-> "Dialer", kind |-> "Listener",
     local_addr |-> local_addr, send_back_addr |-> send_back_addr]

NoEndpoint ==
    [address |-> NoAddr, role_override |-> "Dialer", kind |-> "None",
     local_addr |-> NoAddr, send_back_addr |-> NoAddr]

\* ConnectedPoint::is_relayed
is_relayed_point(point) ==
    IF point.kind = "Dialer" THEN AddrContains(point.address, P2pCircuit)
    ELSE AddrContains(point.local_addr, P2pCircuit)

----------------------------------------------------------------------------
(* Option<T> and strings (sequences of one-character strings) *)

None == [v |-> << >>, some |-> FALSE]
NoPort == [v |-> 0, some |-> FALSE]
Some(x) == [v |-> x, some |-> TRUE]

IsSpace(ch) == ch = " "

RECURSIVE TrimStart(_)
TrimStart(s) == IF s # << >> /\ IsSpace(Head(s)) THEN TrimStart(Tail(s)) ELSE s

RECURSIVE TrimEnd(_)
TrimEnd(s) ==
    IF s # << >> /\ IsSpace(s[Len(s)]) THEN TrimEnd(SubSeq(s, 1, Len(s) - 1)) ELSE s

\* str::trim
Trim(s) == TrimEnd(TrimStart(s))

\* faulty variant: the operand is split at its last ':'
FirstColonLast(s) ==
    IF \E i \in 1..Len(s) : s[i] = ":"
    THEN CHOOSE i \in 1..Len(s) : s[i] = ":" /\ \A j \in (i + 1)..Len(s) : s[j] # ":"
    ELSE 0

\* position of the first ':' of s, 0 when there is none
FirstColon(s) ==
    IF \E i \in 1..Len(s) : s[i] = ":"
    THEN CHOOSE i \in 1..Len(s) : s[i] = ":" /\ \A j \in 1..(i - 1) : s[j] # ":"
    ELSE 0

\* put.splitn(2, ':') followed by next().unwrap_or("").trim(), twice
PutKey(put) ==
    Trim(IF FirstColon(put) = 0 THEN put ELSE SubSeq(put, 1, FirstColon(put) - 1))

PutValue(put) ==
    Trim(IF FirstColon(put) = 0 THEN << >> ELSE SubSeq(put, FirstColon(put) + 1, Len(put)))

----------------------------------------------------------------------------
(* Commands the loop issues on the swarm, and events it takes from it *)

CmdListen(addr, ok) ==
    [addr |-> addr, ok |-> ok, op |-> "listen_on", conn |-> 0, key |-> << >>,
     value |-> << >>, peer |-> 0]

CmdDial(addr, ok) ==
    [addr |-> addr, ok |-> ok, op |-> "dial", conn |-> 0, key |-> << >>,
     value |-> << >>, peer |-> 0]

CmdClose(conn, ok) ==
    [addr |-> NoAddr, ok |-> ok, op |-> "close_connection", conn |-> conn, key |-> << >>,
     value |-> << >>, peer |-> 0]

\* kad put_record_to(Record {key, value}, [peer], Quorum::One)
CmdPut(key, value, peer) ==
    [addr |-> NoAddr, ok |-> TRUE, op |-> "put_record_to", conn |-> 0, key |-> key,
     value |-> value, peer |-> peer]

CmdGet(key) ==
    [addr |-> NoAddr, ok |-> TRUE, op |-> "get_record", conn |-> 0, key |-> key,
     value |-> << >>, peer |-> 0]

Event(type, peer, conn, endpoint, flag) ==
    [conn |-> conn, peer |-> peer, type |-> type, endpoint |-> endpoint, flag |-> flag]

NoEvent == Event("none", 0, 0, NoEndpoint, FALSE)

CmdsOf(op) == {i \in 1..Len(cmds) : cmds[i].op = op}

----------------------------------------------------------------------------
(* The configurations the node is started with *)

RelayAddr == <<Ip4(1), Tcp(1), P2p(1)>>

\* the address of peer p as it is dialed through the relay
CircuitAddr(p) == <<Ip4(1), Tcp(1), P2p(1), P2pCircuit, P2p(p)>>

DirectAddr(p) == <<Ip4(p), Tcp(1), P2p(p)>>

BaseOpt ==
    [peer |-> Some(CircuitAddr(2)), listen_port |-> 1, connect |-> <<RelayAddr>>,
     relay_service |-> FALSE, listen_relayed |-> TRUE, dcutr_port |-> Some(2),
     kad |-> TRUE, kad_put |-> Some(<<"k", ":", "v">>), kad_get |-> Some(<<"k">>)]

\* a node without a target peer, without the dcutr port and without kad, whose
\* put operand and get key are configured all the same
BareOpt == [BaseOpt EXCEPT !.peer = None, !.dcutr_port = NoPort, !.kad = FALSE]

\* the start configurations of Spec: the relay-listen option on and off, and the
\* bare node
Opts ==
    {[BaseOpt EXCEPT !.listen_relayed = lr] : lr \in BOOLEAN} \cup {BareOpt}

----------------------------------------------------------------------------
(* Behaviour: the Toggle fields, filled at construction from the options *)

\* faulty variant: every module is constructed whatever the options say
TogglesAllPresent(o) == [kad |-> TRUE, relay |-> TRUE, dcutr |-> TRUE]

\* kad: opt.kad.then(..).into(), relay: opt.relay_service.then(..).into(),
\* dcutr: opt.dcutr_port.map(..).into()
Toggles(o) == [kad |-> o.kad, relay |-> o.relay_service, dcutr |-> o.dcutr_port.some]

----------------------------------------------------------------------------
(* The swarm as the loop sees it: the endpoints a connection to peer p can have *)

EndpointsOf(p) ==
    {Dialer(DirectAddr(p), "Dialer"), Dialer(DirectAddr(p), "Listener"),
     Dialer(CircuitAddr(p), "Dialer")}
    \cup {Listener(l, <<Ip4(p), Tcp(1)>>) :
            l \in {<<Ip4(0), Tcp(1)>>, <<Ip4(1), Tcp(1), P2p(1), P2pCircuit>>}}

----------------------------------------------------------------------------
(* Connection state tracker: the two maps of the loop *)

\* ConnectionEstablished arm, relayed_connections
EstablishedRelayed(rc, peer_id, connection_id, endpoint) ==
    IF is_relayed_point(endpoint)
    THEN MapPut(rc, peer_id,
                (IF peer_id \in DOMAIN rc THEN rc[peer_id] ELSE {}) \cup {connection_id})
    ELSE rc

\* ConnectionEstablished arm, connections
EstablishedConnections(conns, peer_id, connection_id, endpoint) ==
    MapPut(conns, peer_id,
           MapPut(IF peer_id \in DOMAIN conns THEN conns[peer_id] ELSE EmptyMap,
                  connection_id, endpoint))

\* faulty variant: the closed connection stays in the relayed set
ClosedRelayedKeeps(rc, peer_id, connection_id, endpoint) == rc

\* faulty variant: closing one relayed connection forgets the peer's whole set
ClosedRelayedDropsPeer(rc, peer_id, connection_id, endpoint) ==
    IF is_relayed_point(endpoint) THEN MapRemove(rc, peer_id) ELSE rc

\* ConnectionClosed arm, relayed_connections
ClosedRelayed(rc, peer_id, connection_id, endpoint) ==
    IF is_relayed_point(endpoint) /\ peer_id \in DOMAIN rc
    THEN [rc EXCEPT ![peer_id] = @ \ {connection_id}]
    ELSE rc

\* faulty variant: the closed connection stays in the peer's record
ClosedConnectionsKeeps(conns, peer_id, connection_id) == conns

\* faulty variant: the peer's record is kept when its last connection goes
ClosedConnectionsKeepsEmpty(conns, peer_id, connection_id) ==
    IF peer_id \in DOMAIN conns
    THEN [conns EXCEPT ![peer_id] = MapRemove(@, connection_id)]
    ELSE conns

\* ConnectionClosed arm, connections
ClosedConnections(conns, peer_id, connection_id) ==
    IF peer_id \in DOMAIN conns
    THEN IF DOMAIN MapRemove(conns[peer_id], connection_id) = {}
         THEN MapRemove(conns, peer_id)
         ELSE [conns EXCEPT ![peer_id] = MapRemove(@, connection_id)]
    ELSE conns

\* what a direct-upgrade event reports for its remote_peer_id: TRUE for a direct
\* connection, FALSE for an upgrade that failed
DcutrResults == BOOLEAN

\* Dcutr arm: the set relayed_connections.remove(&peer) hands to the for loop
DcutrConns(rc, peer_id) == IF peer_id \in DOMAIN rc THEN rc[peer_id] ELSE {}

\* faulty variant: the set is read but not removed
DcutrRelayedKeeps(rc, peer_id) == rc

\* Dcutr arm: relayed_connections after the remove
DcutrRelayed(rc, peer_id) == MapRemove(rc, peer_id)

\* Dcutr arm: the close requests, one per member, in the set's iteration order
DcutrCmds(order, established) ==
    [i \in 1..Len(order) |-> CmdClose(order[i], order[i] \in established)]

----------------------------------------------------------------------------
(* Identify arm *)

\* faulty variant: any dialer endpoint matches, role override or not
DialerAddressesAnyRole(conns, peer_id) ==
    IF peer_id \in DOMAIN conns
    THEN {pt.address : pt \in {x \in MapValues(conns[peer_id]) : x.kind = "Dialer"}}
    ELSE {}

\* the dialed addresses find_map can return for the peer
DialerAddresses(conns, peer_id) ==
    IF peer_id \in DOMAIN conns
    THEN {pt.address : pt \in {x \in MapValues(conns[peer_id]) :
                                  x.kind = "Dialer" /\ x.role_override = "Dialer"}}
    ELSE {}

\* the listen requests the arm can issue (one sequence per outcome)
ListenRelayedCmds(o, conns, peer_id, is_relay_server) ==
    IF is_relay_server /\ o.listen_relayed /\ DialerAddresses(conns, peer_id) # {}
    THEN {<<CmdListen(With(a, P2pCircuit), ok)>> :
            a \in DialerAddresses(conns, peer_id), ok \in BOOLEAN}
    ELSE {<< >>}

\* faulty variant: every identified peer counts as an initial dial target
pre_connected_any(o, peer_id) == TRUE

\* opt.connect.iter().any(|addr| addr.iter().any(|p| p == Protocol::P2p(peer_id)))
pre_connected(o, peer_id) ==
    \E i \in 1..Len(o.connect) : AddrContains(o.connect[i], P2p(peer_id))

DialPeerCmds(o, peer_id) ==
    IF o.peer.some /\ pre_connected(o, peer_id)
    THEN {<<CmdDial(o.peer.v, ok)>> : ok \in BOOLEAN}
    ELSE {<< >>}

----------------------------------------------------------------------------
(* Kad arm *)

KadPutCmds(o, b, peer) ==
    IF o.kad_put.some /\ PutKey(o.kad_put.v) # << >> /\ PutValue(o.kad_put.v) # << >>
       /\ b.kad
    THEN <<CmdPut(PutKey(o.kad_put.v), PutValue(o.kad_put.v), peer)>>
    ELSE << >>

KadGetCmds(o, b) ==
    IF o.kad_get.some /\ Trim(o.kad_get.v) # << >> /\ b.kad
    THEN <<CmdGet(Trim(o.kad_get.v))>>
    ELSE << >>

\* faulty variant: the operations are issued on every kad event
KadCmdsAnyEvent(o, b, type, peer) == KadPutCmds(o, b, peer) \o KadGetCmds(o, b)

\* if let kad::Event::RoutingUpdated { peer, .. } = evt { put; get }
KadCmds(o, b, type, peer) ==
    IF type = "Kad.RoutingUpdated"
    THEN KadPutCmds(o, b, peer) \o KadGetCmds(o, b)
    ELSE << >>

----------------------------------------------------------------------------
(* main: start-up, the wait for the listeners, the initial dials *)

LoopInit(options) ==
    /\ pc = "start"
    /\ opt \in options
    /\ behaviour = Toggles(opt)
    /\ connections = EmptyMap
    /\ relayed_connections = EmptyMap
    /\ live = EmptyMap
    /\ nextConn = 1
    /\ close_requested = {}
    /\ ev = NoEvent
    /\ cmds = << >>

TransportIdle ==
    /\ listened = EmptyMap
    /\ inner = EmptyMap
    /\ nextListener = 1
    /\ tlog = EmptyMap
    /\ call = [addr |-> NoAddr, op |-> "none", value |-> NoAddr, id |-> 0,
               observed |-> NoAddr, result |-> "none", inner_calls |-> << >>]

ShimsIdle ==
    /\ autonat_seen = << >>
    /\ autonat_inner = << >>
    /\ handlers = EmptyMap
    /\ kad_inner = {}
    /\ kad_notified = {}

tracker == <<connections, relayed_connections>>
swarmSide == <<live, nextConn, close_requested>>

\* swarm.listen_on(..).expect(..) for the plain port, then for the dcutr port
Startup ==
    /\ pc = "start"
    /\ \E ok1, ok2 \in BOOLEAN :
        LET l1 == CmdListen(<<Ip4(0), Tcp(opt.listen_port)>>, ok1)
            l2 == CmdListen(<<Ip4(0), Tcp(opt.dcutr_port.v), P2pWebRtcDirect>>, ok2)
        IN  IF ~ok1
            THEN cmds' = <<l1>> /\ pc' = "panic"
            ELSE IF opt.dcutr_port.some
                 THEN cmds' = <<l1, l2>> /\ pc' = (IF ok2 THEN "wait" ELSE "panic")
                 ELSE cmds' = <<l1>> /\ pc' = "wait" /\ ok2
    /\ ev' = NoEvent
    /\ UNCHANGED <<opt, behaviour, transportVars, shimVars, tracker, swarmSide>>

WaitNewListenAddr ==
    /\ pc = "wait"
    /\ ev' = Event("NewListenAddr", 0, 0, NoEndpoint, FALSE)
    /\ cmds' = << >>
    /\ UNCHANGED <<pc, opt, behaviour, transportVars, shimVars, tracker, swarmSide>>

\* faulty variant: an unexpected event is dropped and the wait goes on
WaitOtherEventDropped ==
    /\ pc = "wait"
    /\ \E type \in {"ConnectionEstablished", "ListenerError", "Behaviour"} :
        ev' = Event(type, 0, 0, NoEndpoint, FALSE)
    /\ cmds' = << >>
    /\ UNCHANGED <<pc, opt, behaviour, transportVars, shimVars, tracker, swarmSide>>

\* event => panic!("{event:?}")
WaitOtherEvent ==
    /\ pc = "wait"
    /\ \E type \in {"ConnectionEstablished", "ListenerError", "Behaviour"} :
        ev' = Event(type, 0, 0, NoEndpoint, FALSE)
    /\ pc' = "panic"
    /\ cmds' = << >>
    /\ UNCHANGED <<opt, behaviour, transportVars, shimVars, tracker, swarmSide>>

\* the delay fires; then for dest in opt.connect { swarm.dial(dest) }
WaitDelay ==
    /\ pc = "wait"
    /\ \E oks \in [1..Len(opt.connect) -> BOOLEAN] :
        cmds' = [i \in 1..Len(opt.connect) |-> CmdDial(opt.connect[i], oks[i])]
    /\ pc' = "loop"
    /\ ev' = NoEvent
    /\ UNCHANGED <<opt, behaviour, transportVars, shimVars, tracker, swarmSide>>

----------------------------------------------------------------------------
(* main: the orchestration loop, one action per match arm *)

\* faulty variant: the arm looks the peer up with entry(peer_id).or_default(), which
\* records a peer that has no connection
IdentifyReceivedRecords(peer_id, hop) ==
    /\ pc = "loop"
    /\ ev' = Event("Identify.Received", peer_id, 0, NoEndpoint, hop)
    /\ \E l \in ListenRelayedCmds(opt, connections, peer_id, hop),
          d \in DialPeerCmds(opt, peer_id) :
        cmds' = l \o d
    /\ connections' = (IF peer_id \in DOMAIN connections THEN connections
                       ELSE MapPut(connections, peer_id, EmptyMap))
    /\ UNCHANGED <<pc, opt, behaviour, transportVars, shimVars, relayed_connections,
                   swarmSide>>

IdentifyReceived(peer_id, hop) ==
    /\ pc = "loop"
    /\ ev' = Event("Identify.Received", peer_id, 0, NoEndpoint, hop)
    /\ \E l \in ListenRelayedCmds(opt, connections, peer_id, hop),
          d \in DialPeerCmds(opt, peer_id) :
        cmds' = l \o d
    /\ UNCHANGED <<pc, opt, behaviour, transportVars, shimVars, tracker, swarmSide>>

IdentifyOther ==
    /\ pc = "loop"
    /\ ev' = Event("Identify.Other", 0, 0, NoEndpoint, FALSE)
    /\ cmds' = << >>
    /\ UNCHANGED <<pc, opt, behaviour, transportVars, shimVars, tracker, swarmSide>>

AutonatEvent ==
    /\ pc = "loop"
    /\ ev' = Event("Autonat", 0, 0, NoEndpoint, FALSE)
    /\ cmds' = << >>
    /\ UNCHANGED <<pc, opt, behaviour, transportVars, shimVars, tracker, swarmSide>>

\* success: whether the event reports a direct connection or an error
DcutrEvent(peer_id, success) ==
    /\ pc = "loop"
    /\ behaviour.dcutr
    /\ ev' = Event("Dcutr", peer_id, 0, NoEndpoint, success)
    /\ \E order \in Perms(DcutrConns(relayed_connections, peer_id)) :
        cmds' = DcutrCmds(order, DOMAIN live)
    /\ close_requested' = close_requested \cup DcutrConns(relayed_connections, peer_id)
    /\ relayed_connections' = DcutrRelayed(relayed_connections, peer_id)
    /\ UNCHANGED <<pc, opt, behaviour, transportVars, shimVars, connections, live,
                   nextConn>>

KadRoutingUpdated(peer) ==
    /\ pc = "loop"
    /\ behaviour.kad
    /\ ev' = Event("Kad.RoutingUpdated", peer, 0, NoEndpoint, FALSE)
    /\ cmds' = KadCmds(opt, behaviour, "Kad.RoutingUpdated", peer)
    /\ UNCHANGED <<pc, opt, behaviour, transportVars, shimVars, tracker, swarmSide>>

KadOther ==
    /\ pc = "loop"
    /\ behaviour.kad
    /\ ev' = Event("Kad.Other", 0, 0, NoEndpoint, FALSE)
    /\ cmds' = KadCmds(opt, behaviour, "Kad.Other", 0)
    /\ UNCHANGED <<pc, opt, behaviour, transportVars, shimVars, tracker, swarmSide>>

ConnectionEstablished(peer_id, endpoint) ==
    /\ pc = "loop"
    /\ nextConn <= MaxConns
    /\ ev' = Event("ConnectionEstablished", peer_id, nextConn, endpoint, FALSE)
    /\ relayed_connections' =
           EstablishedRelayed(relayed_connections, peer_id, nextConn, endpoint)
    /\ connections' = EstablishedConnections(connections, peer_id, nextConn, endpoint)
    /\ live' = MapPut(live, nextConn, [peer |-> peer_id, endpoint |-> endpoint])
    /\ nextConn' = nextConn + 1
    /\ cmds' = << >>
    /\ UNCHANGED <<pc, opt, behaviour, transportVars, shimVars, close_requested>>

ConnectionClosed(connection_id) ==
    /\ pc = "loop"
    /\ connection_id \in DOMAIN live
    /\ LET peer_id == live[connection_id].peer
           endpoint == live[connection_id].endpoint
       IN  /\ ev' = Event("ConnectionClosed", peer_id, connection_id, endpoint, FALSE)
           /\ relayed_connections' =
                  ClosedRelayed(relayed_connections, peer_id, connection_id, endpoint)
           /\ connections' = ClosedConnections(connections, peer_id, connection_id)
    /\ live' = MapRemove(live, connection_id)
    /\ cmds' = << >>
    /\ UNCHANGED <<pc, opt, behaviour, transportVars, shimVars, nextConn, close_requested>>

\* event => debug!(..): new listen address, dial error, listener closed, ping, relay...
OtherEvent ==
    /\ pc = "loop"
    /\ ev' = Event("Other", 0, 0, NoEndpoint, FALSE)
    /\ cmds' = << >>
    /\ UNCHANGED <<pc, opt, behaviour, transportVars, shimVars, tracker, swarmSide>>

Next ==
    \/ Startup
    \/ WaitNewListenAddr
    \/ WaitOtherEvent
    \/ WaitDelay
    \/ \E p \in Peers, hop \in BOOLEAN : IdentifyReceived(p, hop)
    \/ IdentifyOther
    \/ AutonatEvent
    \/ \E p \in Peers, success \in DcutrResults : DcutrEvent(p, success)
    \/ \E p \in Peers : KadRoutingUpdated(p)
    \/ KadOther
    \/ \E p \in Peers : \E e \in EndpointsOf(p) : ConnectionEstablished(p, e)
    \/ \E c \in ConnIds : ConnectionClosed(c)
    \/ OtherEvent

Init == LoopInit(Opts) /\ TransportIdle /\ ShimsIdle

Spec == Init /\ [][Next]_vars

----------------------------------------------------------------------------
(* The loop with a swarm that carries out the close requests it is given *)

\* swarm.close_connection(conn) surfaces later as the ConnectionClosed event of conn
CloseDelivered(connection_id) ==
    connection_id \in close_requested /\ ConnectionClosed(connection_id)

LiveInit == LoopInit({BaseOpt}) /\ TransportIdle /\ ShimsIdle

\* start-up, the three arms that write the connection state, and the catch-all arm
\* for the events that leave it alone
LiveNext ==
    \/ Startup
    \/ WaitNewListenAddr
    \/ WaitOtherEvent
    \/ WaitDelay
    \/ \E p \in Peers, success \in DcutrResults : DcutrEvent(p, success)
    \/ \E p \in Peers : \E e \in EndpointsOf(p) : ConnectionEstablished(p, e)
    \/ \E c \in ConnIds : ConnectionClosed(c)
    \/ OtherEvent

SpecLive ==
    LiveInit /\ [][LiveNext]_vars /\ \A c \in ConnIds : WF_vars(CloseDelivered(c))

----------------------------------------------------------------------------
(* The kad arm under every form of the --kad-put and --kad-get operands *)

KadPuts ==
    {None, Some(<<"k", ":", "v">>), Some(<<"k", ":", "v", ":", "w">>), Some(<<"k">>),
     Some(<<" ", "k", " ", ":", " ">>), Some(<<":", "v">>),
     Some(<<" ", "k", ":", " ", "v", " ">>)}

KadGets == {None, Some(<<"k">>), Some(<<" ">>), Some(<<" ", "k", " ">>)}

KadOpts ==
    {[BaseOpt EXCEPT !.kad_put = put, !.kad_get = get] : put \in KadPuts, get \in KadGets}

\* start-up and the kad arm of the loop; the other arms read neither operand
KadNext ==
    \/ Startup
    \/ WaitNewListenAddr
    \/ WaitOtherEvent
    \/ WaitDelay
    \/ \E p \in Peers : KadRoutingUpdated(p)
    \/ KadOther

KadInit == LoopInit(KadOpts) /\ TransportIdle /\ ShimsIdle

SpecKad == KadInit /\ [][KadNext]_vars

----------------------------------------------------------------------------
(* HolePunchTransport: the addresses it is called with *)

\* addresses handed to listen_on, dial and dial_as_listener
CallAddrs ==
    {<<Ip4(0), Tcp(2), P2pWebRtcDirect>>,
     <<Ip4(0), P2pWebRtcDirect, Tcp(3), P2pWebRtcDirect>>,
     <<P2pWebRtcDirect, P2pCircuit>>,
     <<Ip4(0), Tcp(2)>>}

\* listen addresses of the swarm handed to address_translation
ListenAddrs ==
    {<<Ip4(0), Tcp(2)>>, <<Ip4(0), Tcp(1)>>, <<Ip4(0)>>,
     <<Ip4(1), Tcp(3), P2p(1), P2pCircuit>>, <<P2p(1), Tcp(2)>>}

ObservedAddrs == {<<Ip4(9), Tcp(7)>>, <<P2p(2)>>}

----------------------------------------------------------------------------
(* HolePunchTransport: helpers *)

is_holepunch_direct_addr(addr) == AddrContains(addr, P2pWebRtcDirect)

IsNotTag(p) == p # P2pWebRtcDirect

\* faulty variant: only a trailing tag is dropped
direct_addr_2_normal_last(addr) ==
    IF addr # << >> /\ addr[Len(addr)] = P2pWebRtcDirect
    THEN SubSeq(addr, 1, Len(addr) - 1)
    ELSE addr

direct_addr_2_normal(addr) == SelectSeq(addr, IsNotTag)

\* libp2p-tcp multiaddr_to_socketaddr: pops segments from the end
RECURSIVE SocketAddrOk(_, _)
SocketAddrOk(addr, havePort) ==
    IF addr = << >> THEN FALSE
    ELSE LET p == addr[Len(addr)]
             rest == SubSeq(addr, 1, Len(addr) - 1)
         IN  IF p.t = "ip4" THEN havePort
             ELSE IF p.t = "tcp" THEN (~havePort /\ SocketAddrOk(rest, TRUE))
             ELSE IF p.t = "p2p" THEN SocketAddrOk(rest, havePort)
             ELSE FALSE

\* the results self.inner.listen_on / dial can return for an address
InnerResults(addr) ==
    IF SocketAddrOk(addr, FALSE) THEN {"Ok", "Other"} ELSE {"MultiaddrNotSupported"}

\* faulty variant: the listener is recorded whatever the inner transport returned
ListenedAfterListenAlways(l, id, normal, result) == MapPut(l, id, normal)

\* .inspect(|_| { self.listened.insert(id, normal); })
ListenedAfterListen(l, id, normal, result) ==
    IF result = "Ok" THEN MapPut(l, id, normal) ELSE l

NoSegment == [v |-> [v |-> 0, t |-> "none"], some |-> FALSE]

\* addr.iter().skip(1).next()
SecondSegment(addr) == IF Len(addr) >= 2 THEN Some(addr[2]) ELSE NoSegment

\* faulty variant: the port guard is gone
PortMatchesAlways(l, listen) == TRUE

\* self.listened.values().any(|addr| addr_port.is_some() && addr_port == port)
PortMatches(l, listen) ==
    \E id \in DOMAIN l :
        SecondSegment(l[id]).some /\ SecondSegment(l[id]) = SecondSegment(listen)

\* libp2p_core::address_translation: the first segment of the listen address is
\* replaced by the first segment of the observed one when both are ip addresses
CoreTranslation(original, observed) ==
    IF original # << >> /\ original[1].t = "ip4" /\ observed # << >> /\ observed[1].t = "ip4"
    THEN Some(<<observed[1]>> \o Tail(original))
    ELSE None

\* HolePunchTransport::address_translation
address_translation(l, listen, observed) ==
    IF PortMatches(l, listen) /\ CoreTranslation(listen, observed).some
    THEN Some(With(CoreTranslation(listen, observed).v, P2pWebRtcDirect))
    ELSE None

----------------------------------------------------------------------------
(* HolePunchTransport: one action per method *)

Call(op, id, addr, observed, result, value, inner_calls) ==
    [addr |-> addr, op |-> op, value |-> value, id |-> id, observed |-> observed,
     result |-> result, inner_calls |-> inner_calls]

InnerCall(op, id, addr) == [addr |-> addr, op |-> op, id |-> id]

listen_on(addr) ==
    /\ nextListener <= MaxListeners
    /\ IF is_holepunch_direct_addr(addr)
       THEN \E result \in InnerResults(direct_addr_2_normal(addr)) :
            LET normal == direct_addr_2_normal(addr)
            IN  /\ inner' = (IF result = "Ok" THEN MapPut(inner, nextListener, normal)
                             ELSE inner)
                /\ listened' = ListenedAfterListen(listened, nextListener, normal, result)
                /\ call' = Call("listen_on", nextListener, addr, NoAddr, result,
                                IF result = "MultiaddrNotSupported" THEN normal ELSE NoAddr,
                                <<InnerCall("listen_on", nextListener, normal)>>)
                /\ tlog' = MapPut(tlog, nextListener,
                                  [addr |-> addr, result |-> result, removed |-> FALSE])
       ELSE /\ call' = Call("listen_on", nextListener, addr, NoAddr,
                            "MultiaddrNotSupported", addr, << >>)
            /\ tlog' = MapPut(tlog, nextListener,
                              [addr |-> addr, result |-> "MultiaddrNotSupported",
                               removed |-> FALSE])
            /\ UNCHANGED <<listened, inner>>
    /\ nextListener' = nextListener + 1
    /\ UNCHANGED <<loopVars, shimVars>>

remove_listener(id) ==
    /\ id \in DOMAIN tlog
    /\ listened' = MapRemove(listened, id)
    /\ inner' = MapRemove(inner, id)
    /\ call' = Call("remove_listener", id, NoAddr, NoAddr,
                    IF id \in DOMAIN inner THEN "true" ELSE "false", NoAddr,
                    <<InnerCall("remove_listener", id, NoAddr)>>)
    /\ tlog' = [tlog EXCEPT ![id].removed = TRUE]
    /\ UNCHANGED <<nextListener, loopVars, shimVars>>

\* dial and dial_as_listener differ only in the method of the inner transport they call
dial(op, addr) ==
    /\ IF is_holepunch_direct_addr(addr)
       THEN \E result \in InnerResults(direct_addr_2_normal(addr)) :
            call' = Call(op, 0, addr, NoAddr, result,
                         IF result = "MultiaddrNotSupported"
                         THEN direct_addr_2_normal(addr) ELSE NoAddr,
                         <<InnerCall(op, 0, direct_addr_2_normal(addr))>>)
       ELSE call' = Call(op, 0, addr, NoAddr, "MultiaddrNotSupported", addr, << >>)
    /\ UNCHANGED <<listened, inner, nextListener, tlog, loopVars, shimVars>>

\* Pin::new(&mut self.inner).poll(cx): the inner transport reports that a listener
\* closed (closed = TRUE), or another event that leaves its listeners alone
poll(id, closed) ==
    /\ id \in DOMAIN inner
    /\ inner' = (IF closed THEN MapRemove(inner, id) ELSE inner)
    /\ call' = Call("poll", id, NoAddr, NoAddr,
                    IF closed THEN "ListenerClosed" ELSE "NewAddress", NoAddr,
                    <<InnerCall("poll", 0, NoAddr)>>)
    /\ UNCHANGED <<listened, nextListener, tlog, loopVars, shimVars>>

translate(listen, observed) ==
    /\ call' = Call("address_translation", 0, listen, observed,
                    IF address_translation(listened, listen, observed).some
                    THEN "Some" ELSE "None",
                    address_translation(listened, listen, observed).v, << >>)
    /\ UNCHANGED <<listened, inner, nextListener, tlog, loopVars, shimVars>>

TransportNext ==
    \/ \E addr \in CallAddrs : listen_on(addr)
    \/ \E id \in ListenerIds : remove_listener(id)
    \/ \E addr \in CallAddrs : dial("dial", addr)
    \/ \E addr \in CallAddrs : dial("dial_as_listener", addr)
    \/ \E id \in ListenerIds, closed \in BOOLEAN : poll(id, closed)
    \/ \E listen \in ListenAddrs, observed \in ObservedAddrs : translate(listen, observed)

TransportInit == LoopInit({BaseOpt}) /\ TransportIdle /\ ShimsIdle

SpecTransport == TransportInit /\ [][TransportNext]_vars

----------------------------------------------------------------------------
(* behaviour/autonat.rs: the shim around autonat::Behaviour *)

FromSwarm(kind, addr, conn) == [addr |-> addr, kind |-> kind, conn |-> conn]

\* the swarm events every behaviour is given
SwarmEvents ==
    {FromSwarm("NewExternalAddrCandidate", <<Ip4(9), Tcp(2), P2pWebRtcDirect>>, 0),
     FromSwarm("NewExternalAddrCandidate", <<Ip4(9), Tcp(1)>>, 0),
     FromSwarm("ExternalAddrConfirmed", <<Ip4(9), Tcp(2), P2pWebRtcDirect>>, 0),
     FromSwarm("NewListenAddr", <<Ip4(0), Tcp(2), P2pWebRtcDirect>>, 0),
     FromSwarm("ConnectionEstablished", NoAddr, 1)}

\* faulty variant: the candidate check is missing
AutonatForwardsAll(event) == TRUE

\* on_swarm_event: FALSE where it returns before self.inner.on_swarm_event(event)
AutonatForwards(event) ==
    ~(event.kind = "NewExternalAddrCandidate" /\ is_holepunch_direct_addr(event.addr))

autonat_on_swarm_event(event) ==
    /\ Len(autonat_seen) < MaxShimEvents
    /\ autonat_seen' = Append(autonat_seen, event)
    /\ autonat_inner' = (IF AutonatForwards(event) THEN Append(autonat_inner, event)
                         ELSE autonat_inner)
    /\ UNCHANGED <<loopVars, transportVars, kadVars>>

AutonatNext == \E event \in SwarmEvents : autonat_on_swarm_event(event)

AutonatInit == LoopInit({BaseOpt}) /\ TransportIdle /\ ShimsIdle

SpecAutonat == AutonatInit /\ [][AutonatNext]_vars

----------------------------------------------------------------------------
(* behaviour/kad.rs: the shim around kad::Behaviour<MemoryStore>.  A handler   *)
(* is "Left" (the inner module's handler) or "Right" (dummy::ConnectionHandler) *)

is_relayed(addr) == AddrContains(addr, P2pCircuit)

\* faulty variant: the remote address is tested instead of the local one
KadInboundHandlerRemote(local_addr, remote_addr) ==
    IF is_relayed(remote_addr) THEN "Right" ELSE "Left"

\* handle_established_inbound_connection: the side of the Either it returns
KadInboundHandler(local_addr, remote_addr) ==
    IF is_relayed(local_addr) THEN "Right" ELSE "Left"

\* handle_established_outbound_connection: the side of the Either it returns
KadOutboundHandler(addr, role_override) ==
    IF is_relayed(addr) THEN "Right" ELSE "Left"

\* on_connection_handler_event: if let Either::Left(event) = event
KadForwardsHandlerEvent(side) == side = "Left"

\* a call the inner module received, and the connection it names (0: none)
InnerKad(kind, conn) == [kind |-> kind, conn |-> conn]

\* what the swarm knows of a connection: its endpoint, the handler the shim returned
\* for it, how far its life has come, whether its handler has output an event
Conn(endpoint, handler, phase, emitted) ==
    [endpoint |-> endpoint, handler |-> handler, phase |-> phase, emitted |-> emitted]

\* the swarm allocates a fresh ConnectionId for every connection
NewConnId == Cardinality(DOMAIN handlers) + 1

KadEstablished(endpoint, side) ==
    /\ NewConnId <= MaxConns
    /\ handlers' = MapPut(handlers, NewConnId, Conn(endpoint, side, "new", FALSE))
    /\ kad_inner' = (IF side = "Left"
                     THEN kad_inner \cup {InnerKad("handle_established_connection", NewConnId)}
                     ELSE kad_inner)
    /\ UNCHANGED <<kad_notified, loopVars, transportVars, autonatVars>>

handle_established_inbound_connection(local_addr, remote_addr) ==
    KadEstablished(Listener(local_addr, remote_addr),
                   KadInboundHandler(local_addr, remote_addr))

handle_established_outbound_connection(addr, role_override) ==
    KadEstablished(Dialer(addr, role_override), KadOutboundHandler(addr, role_override))

\* the life of a connection as the swarm reports it to every behaviour
PhaseAfter(kind, phase) ==
    IF kind = "ConnectionEstablished" /\ phase = "new" THEN "established"
    ELSE IF kind = "ConnectionClosed" /\ phase = "established" THEN "closed"
    ELSE "none"

\* on_swarm_event: self.inner.on_swarm_event(event), whatever the event
kad_on_swarm_event(kind, conn) ==
    /\ IF conn = 0
       THEN kind = "NewListenAddr" /\ handlers' = handlers
       ELSE /\ conn \in DOMAIN handlers
            /\ PhaseAfter(kind, handlers[conn].phase) # "none"
            /\ handlers' = [handlers EXCEPT
                                ![conn].phase = PhaseAfter(kind, handlers[conn].phase)]
    /\ kad_inner' = kad_inner \cup {InnerKad(kind, conn)}
    /\ UNCHANGED <<kad_notified, loopVars, transportVars, autonatVars>>

\* on_connection_handler_event for an event of the connection's handler; the dummy
\* handler has no output event, so only a Left handler gives one
kad_on_connection_handler_event(conn) ==
    /\ conn \in DOMAIN handlers
    /\ handlers[conn].phase = "established"
    /\ handlers[conn].handler = "Left"
    /\ handlers' = [handlers EXCEPT ![conn].emitted = TRUE]
    /\ kad_inner' = (IF KadForwardsHandlerEvent(handlers[conn].handler)
                     THEN kad_inner \cup {InnerKad("on_connection_handler_event", conn)}
                     ELSE kad_inner)
    /\ UNCHANGED <<kad_notified, loopVars, transportVars, autonatVars>>

\* poll: the inner module addresses a handler command to a connection it was told
\* is established; to_swarm.map_in(Either::Left) hands it on as a Left command
kad_poll(conn) ==
    /\ InnerKad("ConnectionEstablished", conn) \in kad_inner
    /\ InnerKad("ConnectionClosed", conn) \notin kad_inner
    /\ kad_notified' = kad_notified \cup {conn}
    /\ UNCHANGED <<handlers, kad_inner, loopVars, transportVars, autonatVars>>

\* the addresses a connection is established on
KadLocalAddrs == {<<Ip4(0), Tcp(1)>>, <<Ip4(1), Tcp(1), P2p(1), P2pCircuit>>}
KadDialAddrs == {DirectAddr(2), CircuitAddr(2)}

KadShimNext ==
    \/ \E l \in KadLocalAddrs :
          handle_established_inbound_connection(l, <<Ip4(2), Tcp(1)>>)
    \/ \E a \in KadDialAddrs, r \in {"Dialer", "Listener"} :
          handle_established_outbound_connection(a, r)
    \/ \E k \in {"ConnectionEstablished", "ConnectionClosed"}, c \in ConnIds :
          kad_on_swarm_event(k, c)
    \/ kad_on_swarm_event("NewListenAddr", 0)
    \/ \E c \in ConnIds : kad_on_connection_handler_event(c)
    \/ \E c \in ConnIds : kad_poll(c)

KadShimInit == LoopInit({BaseOpt}) /\ TransportIdle /\ ShimsIdle

SpecKadShim == KadShimInit /\ [][KadShimNext]_vars

----------------------------------------------------------------------------
(* Properties of the orchestration loop, checked under Spec *)

RelayedOf(rc, p) == IF p \in DOMAIN rc THEN rc[p] ELSE {}

RecordedOf(conns, p) == IF p \in DOMAIN conns THEN DOMAIN conns[p] ELSE {}

\* C1: every connection id in a peer's relayed set is a key of that peer's
\* connection mapping, in every reachable state of the loop.
C1_RelayedSubsetOfConnections ==
    \A p \in DOMAIN relayed_connections :
        \A c \in relayed_connections[p] :
            p \in DOMAIN connections /\ c \in DOMAIN connections[p]

\* a peer holds a relayed and a direct connection at once
C1_Witness ==
    \E p \in DOMAIN relayed_connections :
        /\ relayed_connections[p] # {}
        /\ p \in DOMAIN connections
        /\ DOMAIN connections[p] \ relayed_connections[p] # {}

\* C2: a step that processes a direct-upgrade success for peer P issues one close
\* request for each member of P's relayed set as it was before the step, nothing
\* else, and leaves P without a relayed set.
C2_UpgradeClosesRelayed ==
    [][(ev'.type = "Dcutr" /\ ev'.flag) =>
         LET before == RelayedOf(relayed_connections, ev'.peer)
         IN  /\ Len(cmds') = Cardinality(before)
             /\ \A i \in 1..Len(cmds') :
                    cmds'[i].op = "close_connection" /\ cmds'[i].conn \in before
             /\ \A c \in before :
                    Cardinality({i \in 1..Len(cmds') : cmds'[i].conn = c}) = 1
             /\ ev'.peer \notin DOMAIN relayed_connections']_vars

\* a direct-upgrade success has closed two relayed connections of one peer
C2_Witness ==
    /\ ev.type = "Dcutr"
    /\ ev.flag
    /\ Len(cmds) = 2
    /\ cmds[1].conn # cmds[2].conn

\* C3: a connection established over a relayed endpoint enters its peer's relayed
\* set in that step, and a member leaves the set only in the step that processes
\* its own connection-closed event or a direct-upgrade event for its peer.
C3_RelayedUntilClosedOrUpgraded ==
    [][/\ (ev'.type = "ConnectionEstablished" /\ is_relayed_point(ev'.endpoint))
            => ev'.conn \in RelayedOf(relayed_connections', ev'.peer)
       /\ \A p \in Peers :
            \A c \in RelayedOf(relayed_connections, p) :
                c \notin RelayedOf(relayed_connections', p)
                    => \/ ev'.type = "ConnectionClosed" /\ ev'.peer = p /\ ev'.conn = c
                       \/ ev'.type = "Dcutr" /\ ev'.peer = p]_vars

\* another connection of the same peer closed and the relayed one is still a member
C3_Witness ==
    /\ ev.type = "ConnectionClosed"
    /\ RelayedOf(relayed_connections, ev.peer) # {}
    /\ ev.conn \notin RelayedOf(relayed_connections, ev.peer)

\* C4: no peer maps to an empty connection mapping; the step that processes a
\* connection-closed event leaves the peer with exactly its other connections, and
\* without an entry when there are none.
C4_NoEmptyPeerRecord ==
    /\ [](\A p \in DOMAIN connections : DOMAIN connections[p] # {})
    /\ [][ev'.type = "ConnectionClosed" =>
            LET p == ev'.peer
                left == RecordedOf(connections, p) \ {ev'.conn}
            IN  IF left = {}
                THEN p \notin DOMAIN connections'
                ELSE /\ p \in DOMAIN connections'
                     /\ DOMAIN connections'[p] = left
                     /\ \A c \in left : connections'[p][c] = connections[p][c]]_vars

\* one of two connections of a peer closed and the other is still recorded
C4_Witness ==
    /\ ev.type = "ConnectionClosed"
    /\ Cardinality(RecordedOf(connections, ev.peer)) = 1

\* C5: no peer maps to an empty relayed-connection set.
C5_NoEmptyRelayedSet ==
    \A p \in DOMAIN relayed_connections : relayed_connections[p] # {}

\* C6: an identify-received step issues exactly one listen request, on the dialed
\* address of a recorded plain-dialer connection of the peer plus a circuit segment,
\* when the peer advertises the hop protocol, the relay-listen option is on and such
\* a connection is recorded; otherwise it issues none. Whatever the request returns,
\* no other step of the loop issues a listen request.
C6_OneRelayListenPerIdentify ==
    [][LET listens == {i \in 1..Len(cmds') : cmds'[i].op = "listen_on"}
           p == ev'.peer
           plain == {c \in RecordedOf(connections, p) :
                        /\ connections[p][c].kind = "Dialer"
                        /\ connections[p][c].role_override = "Dialer"}
       IN  IF ev'.type = "Identify.Received"
           THEN IF ev'.flag /\ opt.listen_relayed /\ plain # {}
                THEN /\ Cardinality(listens) = 1
                     /\ \E c \in plain : \A i \in listens :
                            cmds'[i].addr = Append(connections[p][c].address, P2pCircuit)
                ELSE listens = {}
           ELSE listens # {} => pc = "start"]_vars

\* the one listen request of an identify step failed
C6_Witness ==
    /\ ev.type = "Identify.Received"
    /\ \E i \in 1..Len(cmds) : cmds[i].op = "listen_on" /\ ~cmds[i].ok

\* C7: a put or get command is issued only by the step that processes a routing
\* updated event, so none is issued before the first such event, at start-up or by
\* another handler.
C7_TableOpsOnlyOnRoutingUpdated ==
    \A i \in 1..Len(cmds) :
        cmds[i].op \in {"put_record_to", "get_record"}
            => pc = "loop" /\ ev.type = "Kad.RoutingUpdated"

\* a routing updated event issued the put and the get
C7_Witness ==
    /\ ev.type = "Kad.RoutingUpdated"
    /\ CmdsOf("put_record_to") # {}
    /\ CmdsOf("get_record") # {}

\* P is a p2p segment of one of the addresses dialed at start-up
AmongInitialDials(o, P) ==
    \E i \in 1..Len(o.connect) : \E j \in 1..Len(o.connect[i]) :
        o.connect[i][j].t = "p2p" /\ o.connect[i][j].v = P

DialsIn(cs) == {i \in 1..Len(cs) : cs[i].op = "dial"}

\* C14: the step that processes an identify received event from peer P dials the
\* configured target address exactly once if a target is configured and P is a p2p
\* segment of an initial dial address, and issues no dial otherwise, whether or not
\* the same step listens on a relayed address; whether the dial succeeds or fails the
\* loop keeps running, and neither map changes.
C14_DialTargetOnIdentify ==
    [][ev'.type = "Identify.Received"
        => /\ Cardinality(DialsIn(cmds')) =
                (IF opt.peer.some /\ AmongInitialDials(opt, ev'.peer) THEN 1 ELSE 0)
           /\ \A i \in DialsIn(cmds') : cmds'[i].addr = opt.peer.v
           /\ pc' = "loop"
           /\ connections' = connections
           /\ relayed_connections' = relayed_connections]_vars

\* identify from the relay, with a connection recorded: the relayed listen was issued
\* and the dial of the target failed, and the loop is still running
C14_Witness ==
    /\ ev.type = "Identify.Received"
    /\ ev.peer = 1
    /\ Len(cmds) = 2
    /\ cmds[1].op = "listen_on"
    /\ cmds[2] = CmdDial(CircuitAddr(2), FALSE)
    /\ connections # EmptyMap
    /\ pc = "loop"

\* C15: the step that processes a direct-upgrade event reporting a failure for peer
\* P issues no close request and leaves the relayed sets and the connection mapping
\* as they were; relayed connections are torn down on a reported success only.
C15_NoTeardownOnFailedUpgrade ==
    [][ev'.type = "Dcutr" /\ ~ev'.flag
        => /\ cmds' = << >>
           /\ relayed_connections' = relayed_connections
           /\ connections' = connections]_vars

\* C18: while the node waits for its listeners, a new listen address event keeps it
\* waiting and any other event aborts the process, for good; the initial dials are
\* issued and the loop is entered only by the end of the wait, that is by a step
\* from the wait that takes no event, so only if no other event arrived before.
C18_UnexpectedEventInWaitIsFatal ==
    [][/\ (pc = "wait" /\ ev'.type = "NewListenAddr") => (pc' = "wait" /\ cmds' = << >>)
       /\ (pc = "wait" /\ ev'.type \notin {"NewListenAddr", "none"}) => pc' = "panic"
       /\ pc = "panic" => pc' = "panic"
       /\ (pc # "loop" /\ pc' = "loop")
            => /\ pc = "wait"
               /\ ev'.type = "none"
               /\ Len(cmds') = Len(opt.connect)
               /\ \A i \in 1..Len(cmds') :
                    cmds'[i].op = "dial" /\ cmds'[i].addr = opt.connect[i]
       /\ (pc # "loop" /\ DialsIn(cmds') # {}) => pc' = "loop"]_vars

\* a connection established during the wait aborted the process before any dial
C18_Witness ==
    /\ pc = "panic"
    /\ ev.type = "ConnectionEstablished"
    /\ DialsIn(cmds) = {}
    /\ live = EmptyMap

TrackerArms == {"ConnectionEstablished", "ConnectionClosed", "Dcutr"}

\* C19: a step that processes an autonat event, an identify event, a kad event or an
\* event of the catch-all arm leaves the connection mapping and the relayed sets as
\* they were; a step that changes either of them processes a connection established,
\* a connection closed or a direct-upgrade event.
C19_OnlyThreeArmsChangeTracker ==
    [][/\ (pc = "loop" /\ ev'.type \in {"Autonat", "Identify.Received", "Identify.Other",
                                        "Kad.RoutingUpdated", "Kad.Other", "Other"})
            => (connections' = connections /\ relayed_connections' = relayed_connections)
       /\ (connections' # connections \/ relayed_connections' # relayed_connections)
            => ev'.type \in TrackerArms]_vars

\* an identify event from a peer without a connection was processed while a relayed
\* connection to another peer is recorded in both maps
C19_Witness ==
    /\ ev.type = "Identify.Received"
    /\ ev.peer \notin DOMAIN connections
    /\ \E p \in DOMAIN relayed_connections :
        relayed_connections[p] # {} /\ p \in DOMAIN connections

\* C20: which optional modules are present is decided by the options at
\* construction and is the same in every later state; a node built without kad
\* never issues a put or a get, whatever --kad-put and --kad-get say, and a node
\* built without the dcutr port never issues a close request.
C20_CapabilitiesFixedAtConstruction ==
    /\ [](/\ behaviour.kad = opt.kad
          /\ behaviour.relay = opt.relay_service
          /\ behaviour.dcutr = opt.dcutr_port.some
          /\ ~opt.kad => (CmdsOf("put_record_to") = {} /\ CmdsOf("get_record") = {})
          /\ ~opt.dcutr_port.some => CmdsOf("close_connection") = {})
    /\ [][behaviour' = behaviour /\ opt' = opt]_vars

\* a node built without kad and without the dcutr port, with a put operand and a get
\* key configured, is in the loop with a relayed connection recorded
C20_Witness ==
    /\ pc = "loop"
    /\ ~behaviour.kad
    /\ ~behaviour.dcutr
    /\ opt.kad_put.some
    /\ opt.kad_get.some
    /\ \E p \in DOMAIN relayed_connections : relayed_connections[p] # {}
    /\ ev.type = "Other"

ClosesIn(cs) == {i \in 1..Len(cs) : cs[i].op = "close_connection"}

\* C21: connection ids being fresh at every connection established event, every close
\* request the loop issues is for a connection that no earlier step and no other
\* request of the same step asked to close, that was established over a relay and
\* whose connection closed event has not been processed; a direct-upgrade event for
\* a peer without a relayed set issues no close request.
C21_AtMostOneClosePerConnection ==
    [][/\ \A i \in ClosesIn(cmds') :
            /\ cmds'[i].conn \notin close_requested
            /\ \A j \in ClosesIn(cmds') : cmds'[j].conn = cmds'[i].conn => j = i
            /\ cmds'[i].conn \in DOMAIN live
            /\ is_relayed_point(live[cmds'[i].conn].endpoint)
       /\ (ev'.type = "Dcutr" /\ ev'.peer \notin DOMAIN relayed_connections)
            => cmds' = << >>]_vars

\* a second direct-upgrade event for a peer was processed while the connection the
\* first one asked to close is still established: no close request was issued
C21_Witness ==
    /\ ev.type = "Dcutr"
    /\ cmds = << >>
    /\ \E c \in close_requested : c \in DOMAIN live /\ live[c].peer = ev.peer

----------------------------------------------------------------------------
(* Properties of the loop under SpecLive *)

\* the direct-upgrade success just processed took connection c from its peer's
\* relayed set and asked to close it
UpgradeClosed(c) ==
    /\ ev.type = "Dcutr"
    /\ ev.flag
    /\ \E i \in ClosesIn(cmds) : cmds[i].conn = c

\* connection c is in no peer's connection mapping
Forgotten(c) == \A P \in DOMAIN connections : c \notin DOMAIN connections[P]

\* C22: with every close request followed by the connection closed event of its
\* connection, each connection that a direct-upgrade success for peer P took from
\* P's relayed set is eventually absent from P's connection mapping; a connection
\* closed event never creates a relayed set for its peer; and a connection of P that
\* is not relayed stays recorded, with its endpoint, in every step but the one that
\* processes its own connection closed event.
C22_ClosedAfterUpgradeEventuallyForgotten ==
    /\ \A c \in ConnIds : UpgradeClosed(c) ~> Forgotten(c)
    /\ [][/\ (ev'.type = "ConnectionClosed" /\ ev'.peer \notin DOMAIN relayed_connections)
                => ev'.peer \notin DOMAIN relayed_connections'
           /\ \A P \in DOMAIN connections : \A c \in DOMAIN connections[P] :
                (/\ ~is_relayed_point(connections[P][c])
                 /\ ~(ev'.type = "ConnectionClosed" /\ ev'.conn = c))
                => /\ c \in RecordedOf(connections', P)
                   /\ connections'[P][c] = connections[P][c]]_vars

\* after a direct-upgrade success for peer 2 the connection closed event of its
\* relayed connection was processed: the connection is gone from the mapping, peer 2
\* has no relayed set and its direct connection is still recorded
C22_Witness ==
    /\ ev.type = "ConnectionClosed"
    /\ ev.peer = 2
    /\ ev.conn \in close_requested
    /\ ev.conn \notin RecordedOf(connections, 2)
    /\ 2 \notin DOMAIN relayed_connections
    /\ \E c \in RecordedOf(connections, 2) : ~is_relayed_point(connections[2][c])

----------------------------------------------------------------------------
(* Properties of the kad arm, checked under SpecKad *)

\* the key and the value of an operand that has its first ':' at position i
KeyAt(s, i) == Trim(SubSeq(s, 1, i - 1))
ValueAt(s, i) == Trim(SubSeq(s, i + 1, Len(s)))

IsFirstColonAt(s, i) == s[i] = ":" /\ \A j \in 1..(i - 1) : s[j] # ":"

\* the puts a routing updated event for peer P is to issue: one, to P, when the
\* operand is configured and has a non-empty key before and a non-empty value
\* after its first ':'
PutsFor(o, P) ==
    IF o.kad_put.some
       /\ \E i \in 1..Len(o.kad_put.v) :
            /\ IsFirstColonAt(o.kad_put.v, i)
            /\ KeyAt(o.kad_put.v, i) # << >>
            /\ ValueAt(o.kad_put.v, i) # << >>
    THEN LET i == CHOOSE j \in 1..Len(o.kad_put.v) : IsFirstColonAt(o.kad_put.v, j)
         IN  <<CmdPut(KeyAt(o.kad_put.v, i), ValueAt(o.kad_put.v, i), P)>>
    ELSE << >>

\* the gets a routing updated event is to issue
GetsFor(o) ==
    IF o.kad_get.some /\ \E i \in 1..Len(o.kad_get.v) : o.kad_get.v[i] # " "
    THEN <<CmdGet(Trim(o.kad_get.v))>>
    ELSE << >>

\* C13: every step that processes a routing updated event for peer P issues exactly
\* one put to P, with the key before and the value after the first ':' of the
\* operand, iff the operand is configured and both are non-empty after trimming,
\* and exactly one get iff the get key is configured and non-empty after trimming;
\* neither decision depends on the other, and every such event issues them again.
C13_PutAndGetPerRoutingUpdated ==
    [][ev'.type = "Kad.RoutingUpdated" => cmds' = PutsFor(opt, ev'.peer) \o GetsFor(opt)]_vars

\* the operand 'k:v:w' put key 'k' and value 'v:w' to peer 2 while no get key is
\* configured
C13_Witness ==
    /\ ev.type = "Kad.RoutingUpdated"
    /\ ev.peer = 2
    /\ opt.kad_put = Some(<<"k", ":", "v", ":", "w">>)
    /\ ~opt.kad_get.some
    /\ cmds = <<CmdPut(<<"k">>, <<"v", ":", "w">>, 2)>>

----------------------------------------------------------------------------
(* Properties of the hole-punch transport, checked under SpecTransport *)

Tagged(addr) == \E i \in 1..Len(addr) : addr[i].t = "p2p-webrtc-direct"

RECURSIVE WithoutTag(_)
WithoutTag(addr) ==
    IF addr = << >> THEN << >>
    ELSE IF Head(addr).t = "p2p-webrtc-direct" THEN WithoutTag(Tail(addr))
    ELSE <<Head(addr)>> \o WithoutTag(Tail(addr))

TcpPorts(addr) == {addr[i] : i \in {j \in 1..Len(addr) : addr[j].t = "tcp"}}

SamePort(a, b) == TcpPorts(a) \cap TcpPorts(b) # {}

\* C8: address translation returns none when no registered listener has the port of
\* the listen address; a returned address is the underlying translation with the
\* tag appended, and then a registered listener has the port of the listen address.
C8_TranslationGuardedByPort ==
    call.op = "address_translation" =>
        LET matching == {id \in DOMAIN listened : SamePort(listened[id], call.addr)}
            core == CoreTranslation(call.addr, call.observed)
        IN  /\ matching = {} => call.result = "None"
            /\ call.result = "Some" =>
                /\ matching # {}
                /\ core.some
                /\ call.value = Append(core.v, P2pWebRtcDirect)
                /\ Tagged(call.value)

\* a translation against a registered listener returned an address
C8_Witness ==
    /\ call.op = "address_translation"
    /\ call.result = "Some"
    /\ listened # EmptyMap

\* C9: listen, dial and dial_as_listener with an untagged address fail with
\* MultiaddrNotSupported carrying that address, call nothing on the inner transport
\* and leave the registry alone; with a tagged address they call the inner transport
\* once, with the address without any tag segment.
C9_UntaggedRejectedTaggedStripped ==
    [][call'.op \in {"listen_on", "dial", "dial_as_listener"} =>
         IF ~Tagged(call'.addr)
         THEN /\ call'.result = "MultiaddrNotSupported"
              /\ call'.value = call'.addr
              /\ call'.inner_calls = << >>
              /\ listened' = listened
         ELSE /\ Len(call'.inner_calls) = 1
              /\ call'.inner_calls[1].op = call'.op
              /\ call'.inner_calls[1].addr = WithoutTag(call'.addr)
              /\ ~Tagged(call'.inner_calls[1].addr)]_vars

\* an untagged listen was rejected while a listener is registered
C9_Witness ==
    /\ call.op = "listen_on"
    /\ ~Tagged(call.addr)
    /\ call.result = "MultiaddrNotSupported"
    /\ listened # EmptyMap

\* C10: the registry holds listener id L exactly when the listen for L was given a
\* tagged address, succeeded in the inner transport and L was not removed since; the
\* value is that address without the tag; remove_listener leaves its id absent.
C10_RegistryTracksListeners ==
    /\ DOMAIN listened \subseteq DOMAIN tlog
    /\ \A id \in DOMAIN tlog :
        /\ id \in DOMAIN listened
              <=> (Tagged(tlog[id].addr) /\ tlog[id].result = "Ok" /\ ~tlog[id].removed)
        /\ id \in DOMAIN listened => listened[id] = WithoutTag(tlog[id].addr)
    /\ call.op = "remove_listener" => call.id \notin DOMAIN listened

\* a registered listener was removed by the last call and another one is still
\* registered
C10_Witness ==
    /\ call.op = "remove_listener"
    /\ call.id \in DOMAIN tlog
    /\ tlog[call.id].result = "Ok"
    /\ listened # EmptyMap

\* C16: every listener id of the registry is a listener that is live in the inner
\* transport, also after the inner transport reported through poll that a listener
\* closed, and an address translation that succeeds had a live registered listener
\* on the port of the listen address.
C16_RegistryEntriesLive ==
    /\ DOMAIN listened \subseteq DOMAIN inner
    /\ (call.op = "address_translation" /\ call.result = "Some")
        => \E id \in DOMAIN listened \cap DOMAIN inner : SamePort(listened[id], call.addr)

----------------------------------------------------------------------------
(* Properties of the reachability shim, checked under SpecAutonat *)

IsTaggedCandidate(e) == e.kind = "NewExternalAddrCandidate" /\ Tagged(e.addr)

IsNotTaggedCandidate(e) == ~IsTaggedCandidate(e)

\* C11: the inner reachability module has received exactly the swarm events given to
\* the shim that are not candidate events with a tagged address, each once, unchanged
\* and in arrival order; so it never receives a tagged candidate.
C11_TaggedCandidatesSwallowed ==
    /\ autonat_inner = SelectSeq(autonat_seen, IsNotTaggedCandidate)
    /\ \A i \in 1..Len(autonat_inner) : ~IsTaggedCandidate(autonat_inner[i])

\* a tagged candidate was swallowed between two forwarded events, one of them an
\* event of another kind with a tagged address
C11_Witness ==
    /\ Len(autonat_seen) = 3
    /\ IsTaggedCandidate(autonat_seen[2])
    /\ Len(autonat_inner) = 2
    /\ autonat_inner[1].kind = "ExternalAddrConfirmed"
    /\ Tagged(autonat_inner[1].addr)
    /\ autonat_inner[2].kind = "NewExternalAddrCandidate"

----------------------------------------------------------------------------
(* Properties of the routing-table shim, checked under SpecKadShim *)

HasCircuit(addr) == \E i \in 1..Len(addr) : addr[i].t = "p2p-circuit"

OverCircuit(e) ==
    \/ e.kind = "Listener" /\ HasCircuit(e.local_addr)
    \/ e.kind = "Dialer" /\ HasCircuit(e.address)

\* C12: a connection holds the dummy handler exactly when it is inbound with a
\* circuit segment in its local address or outbound with one in its dialed address;
\* the inner module was asked for a handler exactly for the other connections; and
\* the inner module has received a handler event of a connection exactly when that
\* connection's handler has output one and is the inner module's own handler.
C12_DummyHandlerForRelayed ==
    \A c \in DOMAIN handlers :
        /\ handlers[c].handler = "Right" <=> OverCircuit(handlers[c].endpoint)
        /\ handlers[c].handler = "Left" <=> ~OverCircuit(handlers[c].endpoint)
        /\ InnerKad("handle_established_connection", c) \in kad_inner
              <=> ~OverCircuit(handlers[c].endpoint)
        /\ InnerKad("on_connection_handler_event", c) \in kad_inner
              <=> (handlers[c].emitted /\ handlers[c].handler = "Left")

\* an inbound connection over a circuit holds the dummy handler while the event of
\* a direct connection's handler has reached the inner module
C12_Witness ==
    \E c, d \in DOMAIN handlers :
        /\ handlers[c].endpoint.kind = "Listener"
        /\ handlers[c].handler = "Right"
        /\ handlers[c].phase = "established"
        /\ handlers[d].handler = "Left"
        /\ InnerKad("on_connection_handler_event", d) \in kad_inner

\* C17: the inner routing module is never told of a connection that holds the dummy
\* handler, neither by a handler event nor by a connection established or closed
\* notification, and never addresses a handler command to such a connection.
C17_DummyConnectionsUnknownToInner ==
    /\ \A x \in kad_inner :
          x.conn \in DOMAIN handlers => handlers[x.conn].handler = "Left"
    /\ \A c \in kad_notified : handlers[c].handler = "Left"

====
